---- MODULE Spec2Model ----
(***************************************************************************)
(* librashader: the Direct3D 12 C API of the filter chain                  *)
(* (librashader-capi/src/runtime/d3d12/filter_chain.rs), the owned         *)
(* intermediate image of the D3D12 runtime                                 *)
(* (librashader-runtime-d3d12/src/framebuffer.rs) and the GL helpers.      *)
(***************************************************************************)
EXTENDS Integers, Sequences, FiniteSets, TLC

\* ------------------------------------------------------------------ bounds
MaxChains == 2        \* chain objects the caller creates in one run
MaxPasses == 2        \* passes of the largest preset
MaxValue  == 1        \* parameter values are 0..MaxValue (stand-ins for f32s)

\* ------------------------------------------------------- program constants
Null == 0             \* Option<NonNull<T>>::None, and the null pointer

\* ------------------------------------------------------------ value spaces
Ptrs        == {"NULL", "SLOT"}            \* a pointer argument of the caller
ParamNames  == {"alpha", "beta"}           \* parameters of every preset
NullName    == "<null>"                    \* param_name == NULL
BadUtf8     == "<non-utf8>"                \* a C string that is not UTF-8
NameArgs    == ParamNames \cup {"gamma", NullName, BadUtf8}
Values      == 0..MaxValue
LargeU32    == 1073741824 + 1073741823     \* a large u32 the checker can hold
U32Args     == (0..(MaxPasses + 1)) \cup {LargeU32}

Min(a, b) == IF a <= b THEN a ELSE b
Max(a, b) == IF a >= b THEN a ELSE b

\* ---------------------------------------------------------------- images
\* Size<u32> is <<width, height>>.
Formats == {"R8G8B8A8Unorm", "R16G16B16A16Sfloat"}      \* ImageFormat
PSR == "PIXEL_SHADER_RESOURCE"
RT  == "RENDER_TARGET"
CopyDest   == "COPY_DEST"
CopySource == "COPY_SOURCE"

\* Scaling of one axis: a rule and a factor num/den (Absolute: the value num).
ScaleTypes == {"Source", "Viewport", "Absolute"}
Scaling(type, num, den) == [type |-> type, num |-> num, den |-> den]

\* floor(axis * num / den), a product of non-negative numbers
FloorMul(axis, num, den) == (axis * num) \div den

\* One axis of the scale rule, clamped to at least 1.
ScaleAxis(rule, source_axis, viewport_axis) ==
    LET out == CASE rule.type = "Source"   -> FloorMul(source_axis, rule.num, rule.den)
                 [] rule.type = "Viewport" -> FloorMul(viewport_axis, rule.num, rule.den)
                 [] rule.type = "Absolute" -> rule.num
    IN  Max(out, 1)

\* Size::scale_viewport(scaling, viewport)
scale_viewport(source_size, scaling, viewport_size) ==
    << ScaleAxis(scaling.x, source_size[1], viewport_size[1]),
       ScaleAxis(scaling.y, source_size[2], viewport_size[2]) >>

\* Size::calculate_miplevels: floor(log2(max(w, h))) + 1, and 0 for an empty size
RECURSIVE BitLength(_)
BitLength(n) == IF n = 0 THEN 0 ELSE 1 + BitLength(n \div 2)

calculate_miplevels(size) == BitLength(Max(size[1], size[2]))

\* `x as u16`
AsU16(x) == x % 65536

\* d3d12_get_closest_format: the modelled device cannot generate mips for
\* the 16-bit float format and promotes it to the 32-bit float one.
d3d12_get_closest_format(format, mipmap) ==
    IF format = "R16G16B16A16Sfloat" /\ mipmap THEN "R32G32B32A32Sfloat" ELSE format

\* OwnedImage::new after CreateCommittedResource succeeded with resource `h`.
\* uav is D3D12_RESOURCE_FLAG_ALLOW_UNORDERED_ACCESS of the resource
\* description, resFormat its Format; the resource starts in PSR.
OwnedImage_new(h, size, format, mipmap) ==
    LET miplevels == IF mipmap THEN calculate_miplevels(size) ELSE 1
    IN  [ handle     |-> h,
          size       |-> size,
          format     |-> format,
          max_mipmap |-> AsU16(miplevels),
          uav        |-> mipmap,
          resFormat  |-> d3d12_get_closest_format(format, mipmap),
          state      |-> PSR ]

\* The condition of OwnedImage::scale under which a new image is created.
ScaleNeedsNew(self, size, format, mipmap) ==
    \/ self.size # size
    \/ (mipmap /\ self.max_mipmap = 1)
    \/ (~mipmap /\ self.max_mipmap # 1)
    \/ format # self.format

\* Fault variant of scale: the receiver and the argument of scale_viewport
\* are exchanged, viewport_size.scale_viewport(scaling, *source_size).
scale_exchanges_sizes(self, scaling, format, viewport_size, source_size, mipmap, h, allocOk) ==
    LET size == scale_viewport(viewport_size, scaling, source_size)
    IN  IF ScaleNeedsNew(self, size, format, mipmap)
        THEN IF allocOk
             THEN [ok |-> TRUE, size |-> size, image |-> OwnedImage_new(h, size, format, mipmap)]
             ELSE [ok |-> FALSE, size |-> <<0, 0>>, image |-> self]
        ELSE [ok |-> TRUE, size |-> size, image |-> self]

\* Fault variant of scale: the new image is created and dropped without
\* std::mem::swap(self, &mut new).
scale_without_swap(self, scaling, format, viewport_size, source_size, mipmap, h, allocOk) ==
    LET size == scale_viewport(source_size, scaling, viewport_size)
    IN  IF ScaleNeedsNew(self, size, format, mipmap) /\ ~allocOk
        THEN [ok |-> FALSE, size |-> <<0, 0>>, image |-> self]
        ELSE [ok |-> TRUE, size |-> size, image |-> self]

\* Fault variant of scale: the current resource is released before the new
\* image is created, so a failed allocation leaves no resource.
scale_releases_first(self, scaling, format, viewport_size, source_size, mipmap, h, allocOk) ==
    LET size == scale_viewport(source_size, scaling, viewport_size)
    IN  IF ScaleNeedsNew(self, size, format, mipmap)
        THEN IF allocOk
             THEN [ok |-> TRUE, size |-> size, image |-> OwnedImage_new(h, size, format, mipmap)]
             ELSE [ok |-> FALSE, size |-> <<0, 0>>, image |-> [self EXCEPT !.handle = Null]]
        ELSE [ok |-> TRUE, size |-> size, image |-> self]

\* OwnedImage::scale. h is the resource CreateCommittedResource would
\* return, allocOk whether it succeeds. The result carries the Result
\* (ok, size) and the OwnedImage after the call.
OwnedImage_scale(self, scaling, format, viewport_size, source_size, mipmap, h, allocOk) ==
    LET size == scale_viewport(source_size, scaling, viewport_size)
    IN  IF ScaleNeedsNew(self, size, format, mipmap)
        THEN IF allocOk
             THEN [ok |-> TRUE, size |-> size, image |-> OwnedImage_new(h, size, format, mipmap)]
             ELSE [ok |-> FALSE, size |-> <<0, 0>>, image |-> self]
        ELSE [ok |-> TRUE, size |-> size, image |-> self]

\* A resource handle that no live image uses.
FreshHandle(live) == CHOOSE h \in 1..(Cardinality(live) + 1) : h \notin live

\* ---------------------------------------------------------------- presets
\* A preset is identified by its number of passes n in 1..MaxPasses. Odd
\* passes scale x by Viewport x 1/2 and y by Source x 2, render to the
\* 16-bit float format and are mipmapped; even passes are Source x 1 in the
\* 8-bit format. The preset of one pass samples OriginalHistory1 (a ring
\* of depth 2), the preset of two passes PassFeedback of pass 1; longer
\* presets use neither.
Presets == 1..MaxPasses

PassScaling(i) ==
    IF i % 2 = 1
    THEN [x |-> Scaling("Viewport", 1, 2), y |-> Scaling("Source", 2, 1)]
    ELSE [x |-> Scaling("Source", 1, 1),  y |-> Scaling("Source", 1, 1)]
PassFormat(i)  == IF i % 2 = 1 THEN "R16G16B16A16Sfloat" ELSE "R8G8B8A8Unorm"
PassMipmap(i)  == i % 2 = 1
HistoryDepth(n)   == IF n = 1 THEN 2 ELSE 0
FeedbackPasses(n) == IF n = 2 THEN {1} ELSE {}

\* What an image holds: <<kind, pass, tag>>.
Undef       == <<"undef", 0, "">>
Zero        == <<"zero", 0, "">>
Orig(tag)   == <<"orig", 0, tag>>
PassOut(i, tag) == <<"pass", i, tag>>

NoChain == [passes |-> 0]

\* FilterChainD3D12::load_from_preset: every owned image starts as a 1x1
\* image without mipmaps; all passes are enabled and the parameters hold
\* the defaults of the preset.
load_from_preset(n) ==
    LET H  == HistoryDepth(n)
        fb == FeedbackPasses(n)
        fbIndex(i) == Cardinality({j \in fb : j <= i})
    IN  [ passes         |-> n,
          passes_enabled |-> n,
          parameters     |-> [p \in ParamNames |-> 0],
          output     |-> [i \in 1..n |-> OwnedImage_new(i, <<1, 1>>, "R8G8B8A8Unorm", FALSE)],
          outContent |-> [i \in 1..n |-> Undef],
          feedback   |-> [i \in fb |-> OwnedImage_new(n + H + fbIndex(i), <<1, 1>>, "R8G8B8A8Unorm", FALSE)],
          fbContent  |-> [i \in fb |-> Undef],
          history    |-> [k \in 1..H |-> OwnedImage_new(n + k, <<1, 1>>, "R8G8B8A8Unorm", FALSE)],
          histContent |-> [k \in 1..H |-> Undef] ]

\* The resources the chain owns.
LiveHandles(c) ==
    {c.output[i].handle : i \in DOMAIN c.output}
      \cup {c.feedback[i].handle : i \in DOMAIN c.feedback}
      \cup {c.history[k].handle : k \in DOMAIN c.history}

\* FilterChainParameters::set_parameter: Some(old) for a parameter of the
\* chain, None otherwise; never inserts.
set_parameter(c, name, value) ==
    IF name \in DOMAIN c.parameters
    THEN [some |-> TRUE,  chain |-> [c EXCEPT !.parameters[name] = value]]
    ELSE [some |-> FALSE, chain |-> c]

\* FilterChainParameters::get_parameter
get_parameter(c, name) ==
    IF name \in DOMAIN c.parameters
    THEN [some |-> TRUE,  value |-> c.parameters[name]]
    ELSE [some |-> FALSE, value |-> 0]

\* FilterChainParameters::set_enabled_pass_count: clamps to the passes of
\* the preset.
set_enabled_pass_count(c, count) == [c EXCEPT !.passes_enabled = Min(count, c.passes)]

\* FilterChainParameters::get_enabled_pass_count
get_enabled_pass_count(c) == c.passes_enabled

\* `value as usize` of a u32 widens and keeps the value. `value as u32` of
\* a usize keeps the low 32 bits: every usize of the model is below 2^31,
\* where that is the value itself.
U32AsUsize(v) == v
UsizeAsU32(v) == v

\* ------------------------------------------------------- recorded commands
\* A resource is <<kind, id>>: the caller's images and the owned ones.
InputRes  == <<"input", 0>>
OutputRes == <<"output", 0>>
ImgRes(h) == <<"image", h>>
NoParams  == [p \in ParamNames |-> 0]

\* util::d3d12_resource_transition(cmd, resource, before, after)
d3d12_resource_transition(res, before, after) ==
    [op |-> "transition", res |-> res, from |-> before, to |-> after]
CopyTextureRegion(dst, src)   == [op |-> "copy", res |-> dst, src |-> src]
ClearRenderTargetView(res)    == [op |-> "clear", res |-> res]
DrawQuad(i, target, params)   == [op |-> "draw", res |-> target, pass |-> i, params |-> params]
GenerateMipmaps(res)          == [op |-> "mipmap", res |-> res]
Blit(dst, src, size)          == [op |-> "blit", res |-> dst, src |-> src, size |-> size]

\* The state of resource r once the commands have executed, from state st:
\* the state after the last transition of r.
StateAfter(cmds, r, st) ==
    LET on == {j \in 1..Len(cmds) : cmds[j].op = "transition" /\ cmds[j].res = r}
    IN  IF on = {} THEN st
        ELSE cmds[CHOOSE j \in on : \A k \in on : k <= j].to

\* Fault variant of copy_from: the source and the destination of
\* CopyTextureRegion are exchanged.
copy_from_to_source(self) ==
    << d3d12_resource_transition(InputRes, PSR, CopySource),
       d3d12_resource_transition(ImgRes(self.handle), PSR, CopyDest),
       CopyTextureRegion(InputRes, ImgRes(self.handle)),
       d3d12_resource_transition(InputRes, CopySource, PSR),
       d3d12_resource_transition(ImgRes(self.handle), CopyDest, PSR) >>

\* Fault variant of copy_from: the caller's image is not transitioned back
\* after the copy.
copy_from_leaves_source(self) ==
    << d3d12_resource_transition(InputRes, PSR, CopySource),
       d3d12_resource_transition(ImgRes(self.handle), PSR, CopyDest),
       CopyTextureRegion(ImgRes(self.handle), InputRes),
       d3d12_resource_transition(ImgRes(self.handle), CopyDest, PSR) >>

\* OwnedImage::copy_from: the commands it records.
OwnedImage_copy_from(self) ==
    << d3d12_resource_transition(InputRes, PSR, CopySource),
       d3d12_resource_transition(ImgRes(self.handle), PSR, CopyDest),
       CopyTextureRegion(ImgRes(self.handle), InputRes),
       d3d12_resource_transition(InputRes, CopySource, PSR),
       d3d12_resource_transition(ImgRes(self.handle), CopyDest, PSR) >>

\* OwnedImage::clear: rtvOk is whether the render target heap has a free
\* slot for create_render_target_view.
OwnedImage_clear(self, rtvOk) ==
    IF rtvOk
    THEN [ok |-> TRUE,
          cmds |-> << d3d12_resource_transition(ImgRes(self.handle), PSR, RT),
                      ClearRenderTargetView(ImgRes(self.handle)),
                      d3d12_resource_transition(ImgRes(self.handle), RT, PSR) >>]
    ELSE [ok |-> FALSE,
          cmds |-> << d3d12_resource_transition(ImgRes(self.handle), PSR, RT) >>]

\* The contents of img once the commands have executed: those of the
\* caller's input if a copy into img was recorded, else what it held.
Copied(cmds, img, input_content, held) ==
    IF \E j \in 1..Len(cmds) :
          /\ cmds[j].op = "copy"
          /\ cmds[j].res = ImgRes(img.handle)
          /\ cmds[j].src = InputRes
    THEN input_content
    ELSE held

\* The image with the resource state the recorded commands leave it in.
Executed(img, cmds) == [img EXCEPT !.state = StateAfter(cmds, ImgRes(img.handle), img.state)]

\* ------------------------------------------------------------ frame driver
\* Frame options: null is a null `options` pointer.
NoOptions == [null |-> TRUE, clear_history |-> FALSE, frame_direction |-> 0]
FrameOptions(clear, dir) == [null |-> FALSE, clear_history |-> clear, frame_direction |-> dir]

\* Fault variant of FrameDirection: the option is used as it was passed.
frame_direction_as_passed(options) ==
    IF options.null THEN 1 ELSE options.frame_direction

\* The FrameDirection uniform: +1 by default and for 0, else the sign.
FrameDirection(options) ==
    IF options.null THEN 1
    ELSE IF options.frame_direction < 0 THEN -1 ELSE 1

RECURSIVE SortedSeq(_)
SortedSeq(S) ==
    IF S = {} THEN <<>>
    ELSE LET m == CHOOSE x \in S : \A y \in S : x <= y
         IN  <<m>> \o SortedSeq(S \ {m})

RECURSIVE ClearAll(_)
ClearAll(images) ==
    IF images = <<>> THEN <<>>
    ELSE OwnedImage_clear(Head(images), TRUE).cmds \o ClearAll(Tail(images))

\* Step 2: clear every ring slot and every feedback "previous" image. With
\* an exhausted render target heap the first clear fails.
ClearHistory(c, rtvOk) ==
    LET H   == Len(c.history)
        fbs == SortedSeq(DOMAIN c.feedback)
        targets == [k \in 1..H |-> c.history[k]]
                     \o [j \in 1..Len(fbs) |-> c.feedback[fbs[j]]]
    IN  IF targets = <<>> THEN [ok |-> TRUE, chain |-> c, cmds |-> <<>>]
        ELSE IF ~rtvOk
        THEN LET r == OwnedImage_clear(targets[1], FALSE)
             IN  [ok |-> FALSE,
                  chain |-> IF H > 0
                            THEN [c EXCEPT !.history[1] = Executed(@, r.cmds)]
                            ELSE [c EXCEPT !.feedback[fbs[1]] = Executed(@, r.cmds)],
                  cmds |-> r.cmds]
        ELSE LET cmds == ClearAll(targets)
             IN  [ok |-> TRUE,
                  chain |-> [c EXCEPT
                      !.history     = [k \in 1..H |-> Executed(c.history[k], cmds)],
                      !.histContent = [k \in 1..H |-> Zero],
                      !.feedback    = [i \in DOMAIN c.feedback |-> Executed(c.feedback[i], cmds)],
                      !.fbContent   = [i \in DOMAIN c.feedback |-> Zero]],
                  cmds |-> cmds]

\* Step 3: passes i..pActive. The final pass draws to the caller's output
\* with the viewport and records no transition of it; every other pass
\* resizes its owned image (the allocNo-th allocation of the frame fails
\* when allocNo = failAt), draws into it and returns it to shader-read.
RECURSIVE RunPasses(_, _, _, _, _, _, _, _, _, _)

\* The commands of a pass that renders to its owned image.
PassCommands(i, target, used) ==
    << d3d12_resource_transition(target, PSR, RT), DrawQuad(i, target, used) >>
      \o (IF PassMipmap(i) THEN << GenerateMipmaps(target) >> ELSE <<>>)
      \o << d3d12_resource_transition(target, RT, PSR) >>

\* Pass i has recorded rec into image img of size size; the next pass runs.
PassDone(i, pActive, c, cmds, viewport, tag, used, no, failAt, img, size, rec) ==
    RunPasses(i + 1, pActive,
              [c EXCEPT !.output[i] = Executed(img, rec), !.outContent[i] = PassOut(i, tag)],
              cmds \o rec, size, viewport, tag, used, no, failAt)

\* Pass i after scale returned r.
PassScaled(i, pActive, c, cmds, viewport, tag, used, no, failAt, r) ==
    IF ~r.ok THEN [ok |-> FALSE, chain |-> c, cmds |-> cmds, allocNo |-> no]
    ELSE PassDone(i, pActive, c, cmds, viewport, tag, used, no, failAt, r.image, r.size,
                  PassCommands(i, ImgRes(r.image.handle), used))

\* Pass i, whose scale is the no-th allocation of the frame if it allocates.
RunPass(i, pActive, c, cmds, source_size, viewport, tag, used, no, failAt) ==
    PassScaled(i, pActive, c, cmds, viewport, tag, used, no, failAt,
               OwnedImage_scale(c.output[i], PassScaling(i), PassFormat(i), viewport,
                                source_size, PassMipmap(i),
                                FreshHandle(LiveHandles(c)), no # failAt))

RunPasses(i, pActive, c, cmds, source_size, viewport, tag, used, allocNo, failAt) ==
    IF i > pActive THEN [ok |-> TRUE, chain |-> c, cmds |-> cmds, allocNo |-> allocNo]
    ELSE IF i = pActive
    THEN [ok |-> TRUE, chain |-> c,
          cmds |-> Append(cmds, DrawQuad(i, OutputRes, used)), allocNo |-> allocNo]
    ELSE RunPass(i, pActive, c, cmds, source_size, viewport, tag, used,
                 IF ScaleNeedsNew(c.output[i],
                                  scale_viewport(source_size, PassScaling(i), viewport),
                                  PassFormat(i), PassMipmap(i))
                 THEN allocNo + 1 ELSE allocNo,
                 failAt)

\* Step 4a: history rotation. The oldest slot is re-created when it does
\* not fit the input, receives a copy of the input and becomes slot 0.
PushHistory(c, input, allocOk) ==
    LET H == Len(c.history)
    IN  IF H = 0 THEN [ok |-> TRUE, chain |-> c, cmds |-> <<>>, allocs |-> 0]
        ELSE LET back == c.history[H]
                 need == back.size # input.size \/ back.format # input.format
                 img  == IF need
                         THEN OwnedImage_new(FreshHandle(LiveHandles(c)), input.size,
                                             input.format, FALSE)
                         ELSE back
                 cmds == OwnedImage_copy_from(img)
             IN  IF need /\ ~allocOk
                 THEN [ok |-> FALSE, chain |-> c, cmds |-> <<>>, allocs |-> 0]
                 ELSE [ok |-> TRUE, allocs |-> IF need THEN 1 ELSE 0,
                       chain |-> [c EXCEPT
                           !.history     = << Executed(img, cmds) >> \o SubSeq(c.history, 1, H - 1),
                           !.histContent =
                               << Copied(cmds, img, Orig(input.tag),
                                         IF need THEN Undef ELSE c.histContent[H]) >>
                                 \o SubSeq(c.histContent, 1, H - 1)],
                       cmds |-> cmds]

\* Fault variant of the feedback swap: the current image is stored as the
\* previous one and stays the current one.
swap_feedback_aliases(c) ==
    [c EXCEPT !.feedback   = [i \in DOMAIN c.feedback |-> c.output[i]],
              !.fbContent  = [i \in DOMAIN c.feedback |-> c.outContent[i]]]

\* Step 4b: feedback swap of the current and previous image of each pair.
SwapFeedback(c) ==
    [c EXCEPT !.output     = [i \in DOMAIN c.output |->
                                 IF i \in DOMAIN c.feedback THEN c.feedback[i] ELSE c.output[i]],
              !.outContent = [i \in DOMAIN c.output |->
                                 IF i \in DOMAIN c.feedback THEN c.fbContent[i] ELSE c.outContent[i]],
              !.feedback   = [i \in DOMAIN c.feedback |-> c.output[i]],
              !.fbContent  = [i \in DOMAIN c.feedback |-> c.outContent[i]]]

\* The outcome of a frame: the error, the chain and the recorded commands,
\* the parameter snapshot, the passes run, the FrameDirection uniform and
\* the number of images OwnedImage::new created during the call.
FrameResult(code, c, cmds, used, pActive, dir, allocs) ==
    [code |-> code, chain |-> c, cmds |-> cmds, used |-> used, pActive |-> pActive,
     direction |-> dir, allocs |-> allocs]

\* FilterChainD3D12::frame after the passes ran (ps) and the history was
\* pushed (hs): the feedback swap.
FrameEnd(ps, hs, used, pActive, dir) ==
    IF ~hs.ok
    THEN FrameResult("ALLOCATION_FAILED", ps.chain, ps.cmds, used, pActive, dir, ps.allocNo)
    ELSE FrameResult("OK", SwapFeedback(hs.chain), ps.cmds \o hs.cmds, used, pActive,
                     dir, ps.allocNo + hs.allocs)

\* Fault variant of the step after the passes: when a pass failed, the
\* feedback pairs are swapped before the error is returned.
frame_swaps_feedback_on_error(ps, input, failAt, used, pActive, dir) ==
    IF ~ps.ok
    THEN FrameResult("ALLOCATION_FAILED", SwapFeedback(ps.chain), ps.cmds, used, pActive,
                     dir, ps.allocNo - 1)
    ELSE FrameEnd(ps, PushHistory(ps.chain, input, ps.allocNo + 1 # failAt),
                  used, pActive, dir)

\* FilterChainD3D12::frame after the passes ran (ps): the history rotation.
FrameHistory(ps, input, failAt, used, pActive, dir) ==
    IF ~ps.ok
    THEN FrameResult("ALLOCATION_FAILED", ps.chain, ps.cmds, used, pActive, dir,
                     ps.allocNo - 1)
    ELSE FrameEnd(ps, PushHistory(ps.chain, input, ps.allocNo + 1 # failAt),
                  used, pActive, dir)

\* FilterChainD3D12::frame after the history was cleared (cl): the passes.
FramePasses(cl, input, viewport, failAt, used, pActive, dir) ==
    IF ~cl.ok
    THEN FrameResult("ALLOCATION_FAILED", cl.chain, cl.cmds, used, pActive, dir, 0)
    ELSE FrameHistory(RunPasses(1, pActive, cl.chain, cl.cmds, input.size, viewport,
                                input.tag, used, 0, failAt),
                      input, failAt, used, pActive, dir)

\* Fault variant of the frame steps: the viewport is not validated.
frame_steps_without_viewport_check(c, input, viewport, options, failAt, rtvOk, used, pActive, dir) ==
    IF pActive = 0
    THEN FrameResult("OK", c, << Blit(OutputRes, InputRes, viewport) >>, used, pActive, dir, 0)
    ELSE FramePasses(IF options.clear_history THEN ClearHistory(c, rtvOk)
                     ELSE [ok |-> TRUE, chain |-> c, cmds |-> <<>>],
                     input, viewport, failAt, used, pActive, dir)

\* FilterChainD3D12::frame with the parameter snapshot, the number of
\* passes to run and the FrameDirection uniform.
FrameSteps(c, input, viewport, options, failAt, rtvOk, used, pActive, dir) ==
    IF viewport = <<0, 0>>
    THEN FrameResult("INVALID_PARAMETER", c, <<>>, used, pActive, dir, 0)
    ELSE IF pActive = 0
    THEN FrameResult("OK", c, << Blit(OutputRes, InputRes, viewport) >>, used, pActive, dir, 0)
    ELSE FramePasses(IF options.clear_history THEN ClearHistory(c, rtvOk)
                     ELSE [ok |-> TRUE, chain |-> c, cmds |-> <<>>],
                     input, viewport, failAt, used, pActive, dir)

\* FilterChainD3D12::frame
FilterChain_frame(c, input, viewport, options, failAt, rtvOk) ==
    FrameSteps(c, input, viewport, options, failAt, rtvOk,
               c.parameters, Min(c.passes_enabled, c.passes), FrameDirection(options))

\* ------------------------------------------- GL runtime: sampler objects
MaxUnit == 1          \* texture units 0..MaxUnit

\* The keys of the cache: wrap mode, min filter, mag filter, mip filter.
SamplerKeys == {"ClampToBorder", "ClampToEdge", "Repeat", "MirroredRepeat"}
                  \X {"Linear", "Nearest"} \X {"Linear", "Nearest"}
                  \X {"Linear", "Nearest", "Unspecified"}

\* The key of a lookup: one filter serves as min and mag filter.
SamplerKey(wrap, filter, mip) == <<wrap, filter, filter, mip>>

\* SamplerSet::get(wrap, filter, mip): the interned handle, created on first
\* use. The result carries the cache after the lookup.
SamplerSet_get(samplers, wrap, filter, mip) ==
    LET key == SamplerKey(wrap, filter, mip)
    IN  IF key \in DOMAIN samplers
        THEN [samplers |-> samplers, handle |-> samplers[key]]
        ELSE [samplers |-> samplers @@ (key :> Cardinality(DOMAIN samplers) + 1),
              handle   |-> Cardinality(DOMAIN samplers) + 1]

\* struct Texture of the GL runtime: image handle and sampling state
GlTexture(handle, wrap_mode, filter, mip_filter) ==
    [handle |-> handle, wrap_mode |-> wrap_mode, filter |-> filter,
     mip_filter |-> mip_filter]

\* The textures bound in the model: 1 and 2 share a sampling state, 3 and 4
\* differ from it and from each other.
GlTextures == {GlTexture(1, "Repeat", "Linear", "Linear"),
               GlTexture(2, "Repeat", "Linear", "Linear"),
               GlTexture(3, "ClampToEdge", "Nearest", "Unspecified"),
               GlTexture(4, "Repeat", "Nearest", "Linear")}

TextureUnits == 0..MaxUnit

\* The context before any binder ran: no sampler object, nothing bound, no
\* texture allocated, no ring buffer constructed. The ring keeps, besides
\* items and index, the operation applied last and the index `since` calls
\* of next() ago (start).
GlIdle == [samplers |-> << >>,
           allocated |-> {},
           ring     |-> [SIZE |-> 0, items |-> << >>, index |-> 0, last |-> "none",
                         start |-> 0, since |-> 0],
           active   |-> 0,
           texture  |-> [u \in TextureUnits |-> 0],
           sampler  |-> [u \in TextureUnits |-> 0],
           last     |-> [fn |-> "none", binding |-> 0,
                         texture |-> GlTexture(0, "Repeat", "Linear", "Linear")]]

\* gl::BindSampler(unit, samplers.get(wrap_mode, filter, mip_filter))
BindSampler(g, unit, got) ==
    [g EXCEPT !.samplers = got.samplers, !.sampler[unit] = got.handle]

\* Fault variant of Gl3BindTexture::bind_texture: filter and mip filter are
\* passed to the lookup in exchanged positions.
gl3_bind_exchanges_filters(g, binding, texture) ==
    BindSampler([g EXCEPT !.active = binding, !.texture[binding] = texture.handle,
                          !.last = [fn |-> "gl3", binding |-> binding, texture |-> texture]],
                binding,
                SamplerSet_get(g.samplers, texture.wrap_mode, texture.mip_filter,
                               texture.filter))

\* Gl3BindTexture::bind_texture: ActiveTexture, BindTexture on the active
\* unit, BindSampler.
Gl3BindTexture(g, binding, texture) ==
    BindSampler([g EXCEPT !.active = binding, !.texture[binding] = texture.handle,
                          !.last = [fn |-> "gl3", binding |-> binding, texture |-> texture]],
                binding,
                SamplerSet_get(g.samplers, texture.wrap_mode, texture.filter,
                               texture.mip_filter))

\* Fault variant of Gl46BindTexture::bind_texture: the texture is bound on
\* the active unit, as BindTexture without ActiveTexture would.
gl46_bind_on_active_unit(g, binding, texture) ==
    BindSampler([g EXCEPT !.texture[g.active] = texture.handle,
                          !.last = [fn |-> "gl46", binding |-> binding, texture |-> texture]],
                binding,
                SamplerSet_get(g.samplers, texture.wrap_mode, texture.filter,
                               texture.mip_filter))

\* Gl46BindTexture::bind_texture: BindTextureUnit, BindSampler; the active
\* unit is left alone.
Gl46BindTexture(g, binding, texture) ==
    BindSampler([g EXCEPT !.texture[binding] = texture.handle,
                          !.last = [fn |-> "gl46", binding |-> binding, texture |-> texture]],
                binding,
                SamplerSet_get(g.samplers, texture.wrap_mode, texture.filter,
                               texture.mip_filter))

\* ------------------------------------------ two threads on one chain
\* A value that is neither the value before nor the value after a write.
Torn == MaxValue + 1

\* No thread is inside a function. frame and set are the threads' places:
\* "idle", or "borrowed" once assert_some_ptr!(mut chain) has made the
\* thread's `&mut` to the chain. seen[p] collects the values parameter p
\* held while the frame thread was inside frame, raced the parameters
\* written through the second `&mut` during that time.
ThreadsIdle == [frame |-> "idle", set |-> "idle", name |-> "alpha", value |-> 0,
                seen  |-> [p \in ParamNames |-> {0}], raced |-> {}]

\* ------------------------------------------------------------------ state
VARIABLES
    presetH,    \* the caller's libra_shader_preset_t: Null or a preset
    chainH,     \* the caller's libra_d3d12_filter_chain_t: Null or a chain object
    created,    \* chain objects boxed so far; object ids are 1..created
    drops,      \* drops[id]: how often chain object id has been dropped
    chain,      \* the FilterChainD3D12 that chainH refers to (NoChain for Null)
    lastSet,    \* history variable: the value of each parameter's last successful set
    ret,        \* the last C API call: function, returned error, arguments, `out`
    cmd,        \* the commands the last call recorded into the command list
    resState,   \* resource states of the caller's input and output image
    crashed,    \* the process was terminated by a panic or an invalid write
    image,      \* a stand-alone OwnedImage
    call,       \* the last operation on the stand-alone OwnedImage
    scaleArgs,  \* the arguments of that call, where a specification draws them first
    gl,         \* the GL context: sampler cache, texture units, last binder call
    threads     \* two threads of the caller on one chain: what each holds

vars == << presetH, chainH, created, drops, chain, lastSet, ret, cmd, resState,
           crashed, image, call, scaleArgs, gl, threads >>

apiVars   == << presetH, chainH, created, drops, chain, lastSet, ret, cmd, resState, crashed >>
imageVars == << image, call, scaleArgs, gl, threads >>

NeverSet == [p \in ParamNames |-> << >>]

\* The record of a call: the function, the returned error, whether a
\* required pointer or handle was null, and the arguments. out is << >>
\* while `out` is unwritten and <<v>> once v was written to it.
Ret(fn, code, nullArg) ==
    [fn |-> fn, code |-> code, nullArg |-> nullArg, name |-> "", value |-> 0,
     outPtr |-> "", out |-> << >>, used |-> NoParams, pActive |-> 0, direction |-> 0,
     allocs |-> 0, viewport |-> <<0, 0>>, source |-> <<0, 0>>, tag |-> "",
     clear |-> FALSE, noOptions |-> TRUE, frame_direction |-> 0]

\* assert_non_null!(ptr) and assert_some_ptr!(handle): a null pointer, or a
\* pointer to a null handle, where a non-null one is required
IsNullPtr(ptr)      == ptr = "NULL"
IsNoneHandle(h)     == h = Null

InitImage == OwnedImage_new(1, <<1, 1>>, "R8G8B8A8Unorm", FALSE)
NoCall    == [op |-> "none", ok |-> TRUE, size |-> <<0, 0>>, before |-> InitImage,
              req |-> [size |-> <<0, 0>>, format |-> "R8G8B8A8Unorm", mipmap |-> FALSE]]
ScaleArgs(scaling, format, viewport_size, source_size, mipmap) ==
    [scaling |-> scaling, format |-> format, viewport_size |-> viewport_size,
     source_size |-> source_size, mipmap |-> mipmap]
NoArgs    == ScaleArgs([x |-> Scaling("Source", 1, 1), y |-> Scaling("Source", 1, 1)],
                       "R8G8B8A8Unorm", <<1, 1>>, <<1, 1>>, FALSE)

Init ==
    /\ presetH = Null
    /\ chainH = Null
    /\ created = 0
    /\ drops = [id \in 1..MaxChains |-> 0]
    /\ chain = NoChain
    /\ lastSet = NeverSet
    /\ ret = Ret("none", "OK", FALSE)
    /\ cmd = << >>
    /\ resState = [input |-> PSR, output |-> RT]
    /\ crashed = FALSE
    /\ image = InitImage
    /\ call = NoCall
    /\ scaleArgs = NoArgs
    /\ gl = GlIdle
    /\ threads = ThreadsIdle

\* A call that returns an error and does nothing else.
Return(r) ==
    /\ ret' = r
    /\ cmd' = << >>
    /\ UNCHANGED << presetH, chainH, created, drops, chain, lastSet, resState, crashed >>

\* A call that ends the process: a panic that leaves an extern "C" function,
\* or a write through a null pointer.
Crash(r) ==
    /\ ret' = r
    /\ cmd' = << >>
    /\ crashed' = TRUE
    /\ UNCHANGED << presetH, chainH, created, drops, chain, lastSet, resState >>

\* `out.write(v)` through a null `out` is undefined behaviour: the process
\* is terminated, or the store is dropped and the call goes on.
UbOutcomes == {"crash", "elided"}

\* libra_preset_create: the caller obtains a preset of n passes.
libra_preset_create(n) ==
    /\ ~crashed
    /\ presetH' = n
    /\ ret' = [Ret("preset_create", "OK", FALSE) EXCEPT !.value = n]
    /\ cmd' = << >>
    /\ UNCHANGED << chainH, created, drops, chain, lastSet, resState, crashed >>
    /\ UNCHANGED imageVars

\* Fault variant of free: the handle is read with as_ref() where the code
\* uses take(), so the chain is dropped and the handle keeps its value.
free_without_take(ptr) ==
    /\ ~crashed
    /\ UNCHANGED imageVars
    /\ IF IsNullPtr(ptr)
       THEN Return(Ret("free", "INVALID_PARAMETER", TRUE))
       ELSE IF chainH = Null
       THEN Crash(Ret("free", "PANIC", TRUE))
       ELSE /\ drops' = [drops EXCEPT ![chainH] = Min(@ + 1, 2)]
            /\ ret' = [Ret("free", "OK", FALSE) EXCEPT !.value = chainH]
            /\ cmd' = << >>
            /\ UNCHANGED << presetH, chainH, chain, lastSet, created, resState, crashed >>

\* libra_d3d12_filter_chain_free(chain)
libra_d3d12_filter_chain_free(ptr) ==
    /\ ~crashed
    /\ UNCHANGED imageVars
    /\ IF IsNullPtr(ptr)
       THEN Return(Ret("free", "INVALID_PARAMETER", TRUE))
       ELSE IF chainH = Null
       THEN \* chain_ptr.take() is None and unwrap() panics
            Crash(Ret("free", "PANIC", TRUE))
       ELSE /\ chainH' = Null
            /\ drops' = [drops EXCEPT ![chainH] = @ + 1]
            /\ chain' = NoChain
            /\ lastSet' = NeverSet
            /\ ret' = [Ret("free", "OK", FALSE) EXCEPT !.value = chainH]
            /\ cmd' = << >>
            /\ UNCHANGED << presetH, created, resState, crashed >>

\* Fault variant of create: the preset is taken only once the chain has
\* loaded, so a failed load leaves the preset handle as it was.
create_takes_preset_late(ptr, outPtr, loadOk, ub) ==
    /\ ~crashed
    /\ UNCHANGED imageVars
    /\ LET r(code, nullArg) == [Ret("create", code, nullArg) EXCEPT !.outPtr = outPtr,
                                                                  !.value = presetH]
       IN  IF IsNullPtr(ptr)
           THEN Return(r("INVALID_PARAMETER", TRUE))
           ELSE IF presetH = Null
           THEN Crash(r("PANIC", TRUE))
           ELSE IF ~loadOk
           THEN Return(r("SHADER_COMPILE", FALSE))
           ELSE /\ created < MaxChains
                /\ presetH' = Null
                /\ created' = created + 1
                /\ cmd' = << >>
                /\ UNCHANGED << drops, resState >>
                /\ IF IsNullPtr(outPtr)
                   THEN /\ ret' = r(IF ub = "crash" THEN "UB" ELSE "OK", TRUE)
                        /\ crashed' = (ub = "crash")
                        /\ UNCHANGED << chainH, chain, lastSet >>
                   ELSE /\ chainH' = created + 1
                        /\ chain' = load_from_preset(presetH)
                        /\ lastSet' = NeverSet
                        /\ ret' = r("OK", FALSE)
                        /\ UNCHANGED crashed

\* libra_d3d12_filter_chain_create(preset, opt, device, out). loadOk is
\* whether load_from_preset succeeds; ub the outcome of writing a null out.
libra_d3d12_filter_chain_create(ptr, outPtr, loadOk, ub) ==
    /\ ~crashed
    /\ UNCHANGED imageVars
    /\ LET r(code, nullArg) == [Ret("create", code, nullArg) EXCEPT !.outPtr = outPtr,
                                                                  !.value = presetH]
       IN  IF IsNullPtr(ptr)
           THEN Return(r("INVALID_PARAMETER", TRUE))
           ELSE IF presetH = Null
           THEN \* preset_ptr.take() is None and unwrap() panics
                Crash(r("PANIC", TRUE))
           ELSE IF ~loadOk
           THEN \* the preset was taken and is dropped; `out` is not written
                /\ presetH' = Null
                /\ ret' = r("SHADER_COMPILE", FALSE)
                /\ cmd' = << >>
                /\ UNCHANGED << chainH, created, drops, chain, lastSet, resState, crashed >>
           ELSE /\ created < MaxChains
                /\ presetH' = Null
                /\ created' = created + 1
                /\ cmd' = << >>
                /\ UNCHANGED << drops, resState >>
                /\ IF IsNullPtr(outPtr)
                   THEN \* the boxed chain is leaked
                        /\ ret' = r(IF ub = "crash" THEN "UB" ELSE "OK", TRUE)
                        /\ crashed' = (ub = "crash")
                        /\ UNCHANGED << chainH, chain, lastSet >>
                   ELSE /\ chainH' = created + 1
                        /\ chain' = load_from_preset(presetH)
                        /\ lastSet' = NeverSet
                        /\ ret' = r("OK", FALSE)
                        /\ UNCHANGED crashed

\* Fault variant of set_param: a name the chain does not have is inserted
\* into the registry and the call reports success.
set_param_inserts(ptr, name, value) ==
    /\ ~crashed
    /\ UNCHANGED imageVars
    /\ LET r(code, nullArg) == [Ret("set_param", code, nullArg) EXCEPT !.name = name,
                                                                     !.value = value]
           set == set_parameter(chain, name, value)
       IN  IF IsNullPtr(ptr) \/ IsNoneHandle(chainH) \/ name = NullName
           THEN Return(r("INVALID_PARAMETER", TRUE))
           ELSE IF name = BadUtf8
           THEN Return(r("INVALID_PARAMETER", FALSE))
           ELSE /\ chain' = IF set.some THEN set.chain
                            ELSE [chain EXCEPT !.parameters =
                                     [p \in DOMAIN @ \cup {name} |->
                                         IF p = name THEN value ELSE @[p]]]
                /\ lastSet' = IF set.some THEN [lastSet EXCEPT ![name] = <<value>>]
                              ELSE lastSet
                /\ ret' = r("OK", FALSE)
                /\ cmd' = << >>
                /\ UNCHANGED << presetH, chainH, created, drops, resState, crashed >>

\* Fault variant of set_param: the value is halved before it is
\* stored.
set_param_truncates(ptr, name, value) ==
    /\ ~crashed
    /\ UNCHANGED imageVars
    /\ LET r(code, nullArg) == [Ret("set_param", code, nullArg) EXCEPT !.name = name,
                                                                     !.value = value]
           set == set_parameter(chain, name, value \div 2)
       IN  IF IsNullPtr(ptr) \/ IsNoneHandle(chainH) \/ name = NullName
           THEN Return(r("INVALID_PARAMETER", TRUE))
           ELSE IF name = BadUtf8
           THEN Return(r("INVALID_PARAMETER", FALSE))
           ELSE IF ~set.some
           THEN Return(r("UNKNOWN_PARAMETER", FALSE))
           ELSE /\ chain' = set.chain
                /\ lastSet' = [lastSet EXCEPT ![name] = <<value>>]
                /\ ret' = r("OK", FALSE)
                /\ cmd' = << >>
                /\ UNCHANGED << presetH, chainH, created, drops, resState, crashed >>

\* libra_d3d12_filter_chain_set_param(chain, param_name, value)
libra_d3d12_filter_chain_set_param(ptr, name, value) ==
    /\ ~crashed
    /\ UNCHANGED imageVars
    /\ LET r(code, nullArg) == [Ret("set_param", code, nullArg) EXCEPT !.name = name,
                                                                     !.value = value]
           set == set_parameter(chain, name, value)
       IN  IF IsNullPtr(ptr) \/ IsNoneHandle(chainH) \/ name = NullName
           THEN Return(r("INVALID_PARAMETER", TRUE))
           ELSE IF name = BadUtf8
           THEN Return(r("INVALID_PARAMETER", FALSE))
           ELSE IF ~set.some
           THEN Return(r("UNKNOWN_PARAMETER", FALSE))
           ELSE /\ chain' = set.chain
                /\ lastSet' = [lastSet EXCEPT ![name] = <<value>>]
                /\ ret' = r("OK", FALSE)
                /\ cmd' = << >>
                /\ UNCHANGED << presetH, chainH, created, drops, resState, crashed >>

\* libra_d3d12_filter_chain_get_param(chain, param_name, out)
libra_d3d12_filter_chain_get_param(ptr, name, outPtr, ub) ==
    /\ ~crashed
    /\ UNCHANGED imageVars
    /\ LET r(code, nullArg) == [Ret("get_param", code, nullArg) EXCEPT !.name = name,
                                                                     !.outPtr = outPtr]
           get == get_parameter(chain, name)
       IN  IF IsNullPtr(ptr) \/ IsNoneHandle(chainH) \/ name = NullName
           THEN Return(r("INVALID_PARAMETER", TRUE))
           ELSE IF name = BadUtf8
           THEN Return(r("INVALID_PARAMETER", FALSE))
           ELSE IF ~get.some
           THEN Return(r("UNKNOWN_PARAMETER", FALSE))
           ELSE IF IsNullPtr(outPtr)
           THEN IF ub = "crash" THEN Crash(r("UB", TRUE)) ELSE Return(r("OK", TRUE))
           ELSE Return([r("OK", FALSE) EXCEPT !.out = <<get.value>>])

\* Fault variant of set_active_pass_count: the count is stored as given,
\* without going through set_enabled_pass_count.
set_active_pass_count_unclamped(ptr, value) ==
    /\ ~crashed
    /\ UNCHANGED imageVars
    /\ LET r(code, nullArg) == [Ret("set_active_pass_count", code, nullArg) EXCEPT !.value = value]
       IN  IF IsNullPtr(ptr) \/ IsNoneHandle(chainH)
           THEN Return(r("INVALID_PARAMETER", TRUE))
           ELSE /\ chain' = [chain EXCEPT !.passes_enabled = U32AsUsize(value)]
                /\ ret' = r("OK", FALSE)
                /\ cmd' = << >>
                /\ UNCHANGED << presetH, chainH, created, drops, lastSet, resState, crashed >>

\* libra_d3d12_filter_chain_set_active_pass_count(chain, value)
libra_d3d12_filter_chain_set_active_pass_count(ptr, value) ==
    /\ ~crashed
    /\ UNCHANGED imageVars
    /\ LET r(code, nullArg) == [Ret("set_active_pass_count", code, nullArg) EXCEPT !.value = value]
       IN  IF IsNullPtr(ptr) \/ IsNoneHandle(chainH)
           THEN Return(r("INVALID_PARAMETER", TRUE))
           ELSE /\ chain' = set_enabled_pass_count(chain, U32AsUsize(value))
                /\ ret' = r("OK", FALSE)
                /\ cmd' = << >>
                /\ UNCHANGED << presetH, chainH, created, drops, lastSet, resState, crashed >>

\* libra_d3d12_filter_chain_get_active_pass_count(chain, out)
libra_d3d12_filter_chain_get_active_pass_count(ptr, outPtr, ub) ==
    /\ ~crashed
    /\ UNCHANGED imageVars
    /\ LET r(code, nullArg) == [Ret("get_active_pass_count", code, nullArg) EXCEPT !.outPtr = outPtr]
       IN  IF IsNullPtr(ptr) \/ IsNoneHandle(chainH)
           THEN Return(r("INVALID_PARAMETER", TRUE))
           ELSE IF IsNullPtr(outPtr)
           THEN IF ub = "crash" THEN Crash(r("UB", TRUE)) ELSE Return(r("OK", TRUE))
           ELSE Return([r("OK", FALSE) EXCEPT !.out = <<UsizeAsU32(get_enabled_pass_count(chain))>>])

\* The caller's images after the recorded commands have executed.
CallerStates(rs, cmds) ==
    [input  |-> StateAfter(cmds, InputRes, rs.input),
     output |-> StateAfter(cmds, OutputRes, rs.output)]

\* Resource handles are opaque names. Between calls the owned images are
\* renamed to the first role that holds them, in the order outputs, history
\* slots, feedback images: an injective renaming, so two roles hold the same
\* name exactly when they hold the same resource; the handle of an image
\* that no longer exists becomes Null. The recorded commands are renamed
\* with the images.
Roles(c) ==
    [i \in 1..c.passes |-> c.output[i].handle]
      \o [k \in 1..Len(c.history) |-> c.history[k].handle]
      \o LET fbs == SortedSeq(DOMAIN c.feedback)
         IN  [j \in 1..Len(fbs) |-> c.feedback[fbs[j]].handle]

Renamed(roles, h) ==
    LET at == {r \in 1..Len(roles) : roles[r] = h}
    IN  IF at = {} THEN Null ELSE CHOOSE r \in at : \A q \in at : r <= q

RenameChain(c) ==
    LET roles == Roles(c)
    IN  [c EXCEPT !.output   = [i \in DOMAIN c.output |->
                                   [c.output[i] EXCEPT !.handle = Renamed(roles, @)]],
                  !.history  = [k \in DOMAIN c.history |->
                                   [c.history[k] EXCEPT !.handle = Renamed(roles, @)]],
                  !.feedback = [i \in DOMAIN c.feedback |->
                                   [c.feedback[i] EXCEPT !.handle = Renamed(roles, @)]]]

RenameCmds(c, cmds) ==
    LET roles == Roles(c)
        map   == [h \in 1..(Len(roles) + 1) |-> Renamed(roles, h)]
    IN  [j \in 1..Len(cmds) |->
            IF cmds[j].res[1] = "image"
            THEN [cmds[j] EXCEPT !.res = ImgRes(map[@[2]])]
            ELSE cmds[j]]

\* The effect of chain.frame(..) returning f: the chain, the recorded
\* commands, the caller's images and the returned error.
FrameReturn(f, viewport, input, options) ==
    /\ chain' = RenameChain(f.chain)
    /\ cmd' = RenameCmds(f.chain, f.cmds)
    /\ resState' = CallerStates(resState, f.cmds)
    /\ ret' = [Ret("frame", f.code, FALSE) EXCEPT !.used = f.used,
                                                 !.pActive = f.pActive,
                                                 !.direction = f.direction,
                                                 !.allocs = f.allocs,
                                                 !.viewport = viewport,
                                                 !.source = input.size,
                                                 !.tag = input.tag,
                                                 !.clear = options.clear_history,
                                                 !.noOptions = options.null,
                                                 !.frame_direction = options.frame_direction]
    /\ UNCHANGED << presetH, chainH, created, drops, lastSet, crashed >>

\* Fault variant of frame: the output view is built with
\* Size::new(viewport.height, viewport.width).
frame_swaps_viewport(ptr, input, viewport, options, failAt, rtvOk) ==
    /\ ~crashed
    /\ UNCHANGED imageVars
    /\ IF IsNullPtr(ptr) \/ IsNoneHandle(chainH)
       THEN Return(Ret("frame", "INVALID_PARAMETER", TRUE))
       ELSE FrameReturn(FilterChain_frame(chain, input, <<viewport[2], viewport[1]>>,
                                          options, failAt, rtvOk), viewport, input, options)

\* libra_d3d12_filter_chain_frame(chain, command_list, frame_count, image,
\* viewport, out, mvp, options)
libra_d3d12_filter_chain_frame(ptr, input, viewport, options, failAt, rtvOk) ==
    /\ ~crashed
    /\ UNCHANGED imageVars
    /\ IF IsNullPtr(ptr) \/ IsNoneHandle(chainH)
       THEN Return(Ret("frame", "INVALID_PARAMETER", TRUE))
       ELSE FrameReturn(FilterChain_frame(chain, input, viewport, options, failAt, rtvOk),
                        viewport, input, options)

\* ------------------------------------------------------------ environment
\* The caller's input images: A is 1x1, B is 2x1.
InputImage(tag, size) == [size |-> size, format |-> "R8G8B8A8Unorm", tag |-> tag]
Inputs     == {InputImage("A", <<1, 1>>), InputImage("B", <<2, 1>>)}
OneInput   == InputImage("B", <<2, 1>>)
Viewports  == {<<0, 0>>, <<2, 2>>, <<4, 2>>}
Directions == {-2, -1, 0, 2}
OptionArgs == {NoOptions} \cup {FrameOptions(cl, d) : cl \in BOOLEAN, d \in Directions}
FailPoints == 0..MaxPasses

\* The life cycle of the handles: every function, with null and non-null
\* pointers, on null and live handles.
Next ==
    \/ \E n \in Presets : libra_preset_create(n)
    \/ \E ptr \in Ptrs, outPtr \in Ptrs, loadOk \in BOOLEAN, ub \in UbOutcomes :
          libra_d3d12_filter_chain_create(ptr, outPtr, loadOk, ub)
    \/ \E ptr \in Ptrs : libra_d3d12_filter_chain_free(ptr)
    \/ \E ptr \in Ptrs, name \in {"alpha", NullName} :
          libra_d3d12_filter_chain_set_param(ptr, name, MaxValue)
    \/ \E ptr \in Ptrs, name \in {"alpha", NullName}, outPtr \in Ptrs, ub \in UbOutcomes :
          libra_d3d12_filter_chain_get_param(ptr, name, outPtr, ub)
    \/ \E ptr \in Ptrs, value \in {0, MaxPasses} :
          libra_d3d12_filter_chain_set_active_pass_count(ptr, value)
    \/ \E ptr \in Ptrs, outPtr \in Ptrs, ub \in UbOutcomes :
          libra_d3d12_filter_chain_get_active_pass_count(ptr, outPtr, ub)
    \/ \E ptr \in Ptrs :
          libra_d3d12_filter_chain_frame(ptr, OneInput, <<2, 2>>, NoOptions, 0, TRUE)

Spec == Init /\ [][Next]_vars

\* A chain created from a preset of n passes, held by the caller.
InitLive ==
    /\ presetH = Null
    /\ chainH = 1
    /\ created = 1
    /\ drops = [id \in 1..MaxChains |-> 0]
    /\ \E n \in Presets : chain = load_from_preset(n)
    /\ lastSet = NeverSet
    /\ ret = [Ret("create", "OK", FALSE) EXCEPT !.outPtr = "SLOT", !.value = chain.passes]
    /\ cmd = << >>
    /\ resState = [input |-> PSR, output |-> RT]
    /\ crashed = FALSE
    /\ image = InitImage
    /\ call = NoCall
    /\ scaleArgs = NoArgs
    /\ gl = GlIdle
    /\ threads = ThreadsIdle

\* The parameter registry of a live chain and the frames that read it.
NextParams ==
    \/ \E name \in NameArgs, value \in Values :
          libra_d3d12_filter_chain_set_param("SLOT", name, value)
    \/ \E name \in NameArgs :
          libra_d3d12_filter_chain_get_param("SLOT", name, "SLOT", "crash")
    \/ \E value \in U32Args :
          libra_d3d12_filter_chain_set_active_pass_count("SLOT", value)
    \/ libra_d3d12_filter_chain_get_active_pass_count("SLOT", "SLOT", "crash")
    \/ \E options \in OptionArgs :
          libra_d3d12_filter_chain_frame("SLOT", OneInput, <<2, 2>>, options, 0, TRUE)

SpecParams == InitLive /\ [][NextParams]_vars

\* The frames of a live chain: inputs, viewports, cleared history, failing
\* allocations, and changes of the active pass count in between.
FrameOptionArgs == {NoOptions, FrameOptions(TRUE, 1)}
NextFrame ==
    \/ \E value \in 0..MaxPasses :
          libra_d3d12_filter_chain_set_active_pass_count("SLOT", value)
    \/ \E input \in Inputs, viewport \in Viewports, options \in FrameOptionArgs,
          failAt \in FailPoints, rtvOk \in BOOLEAN :
          /\ (rtvOk \/ options.clear_history)
          /\ libra_d3d12_filter_chain_frame("SLOT", input, viewport, options, failAt, rtvOk)

SpecFrame == InitLive /\ [][NextFrame]_vars

\* ------------------------------------------------- the stand-alone image
\* image.scale(scaling, format, &viewport_size, &source_size, mipmap) on the
\* stand-alone OwnedImage; allocOk is whether CreateCommittedResource
\* succeeds. call keeps the image before the call and what was requested.
ImageScale(scaling, format, viewport_size, source_size, mipmap, allocOk) ==
    LET r == OwnedImage_scale(image, scaling, format, viewport_size, source_size, mipmap,
                              FreshHandle({image.handle}), allocOk)
    IN  /\ image' = r.image
        /\ call' = [op |-> "scale", ok |-> r.ok, size |-> r.size, before |-> image,
                    req |-> [size   |-> scale_viewport(source_size, scaling, viewport_size),
                             format |-> format,
                             mipmap |-> mipmap]]
        /\ UNCHANGED << scaleArgs, gl, threads >>
        /\ UNCHANGED apiVars

ApiIdle ==
    /\ presetH = Null
    /\ chainH = Null
    /\ created = 0
    /\ drops = [id \in 1..MaxChains |-> 0]
    /\ chain = NoChain
    /\ lastSet = NeverSet
    /\ ret = Ret("none", "OK", FALSE)
    /\ cmd = << >>
    /\ resState = [input |-> PSR, output |-> RT]
    /\ crashed = FALSE
    /\ gl = GlIdle
    /\ threads = ThreadsIdle

InitImageSpec ==
    /\ ApiIdle
    /\ image = InitImage
    /\ call = NoCall
    /\ scaleArgs = NoArgs

MaxDim == 2           \* sizes have axes 0..MaxDim

ImageRules    == {Scaling("Source", 1, 1), Scaling("Viewport", 1, 2)}
ImageScalings == {[x |-> rx, y |-> ry] : rx \in ImageRules, ry \in ImageRules}
ImageSources  == (1..MaxDim) \X (1..MaxDim)

\* The commands cmds were recorded by operation op on the stand-alone
\* image, which returned ok; the commands execute.
ImageRecorded(op, ok, cmds) ==
    /\ image.state = PSR
    /\ image' = Executed(image, cmds)
    /\ cmd' = cmds
    /\ resState' = CallerStates(resState, cmds)
    /\ call' = [NoCall EXCEPT !.op = op, !.ok = ok, !.size = image.size, !.before = image]
    /\ UNCHANGED << presetH, chainH, created, drops, chain, lastSet, ret, crashed >>
    /\ UNCHANGED << scaleArgs, gl, threads >>

\* image.copy_from(cmd, input), called with image and input in PSR
ImageCopyFrom == ImageRecorded("copy_from", TRUE, OwnedImage_copy_from(image))

\* image.clear(cmd, heap), called with image in PSR
ImageClear(rtvOk) ==
    ImageRecorded("clear", OwnedImage_clear(image, rtvOk).ok, OwnedImage_clear(image, rtvOk).cmds)

NextImage ==
    \E scaling \in ImageScalings, format \in Formats, source_size \in ImageSources,
       mipmap \in BOOLEAN, allocOk \in BOOLEAN :
       ImageScale(scaling, format, <<2, 2>>, source_size, mipmap, allocOk)

SpecImage == InitImageSpec /\ [][NextImage]_vars

\* The commands recorded on the stand-alone image: it is resized to the
\* source, copied into and cleared.
NextImageCmds ==
    \/ \E format \in Formats, source_size \in ImageSources, mipmap \in BOOLEAN :
          ImageScale([x |-> Scaling("Source", 1, 1), y |-> Scaling("Source", 1, 1)],
                     format, <<2, 2>>, source_size, mipmap, TRUE)
    \/ ImageCopyFrom
    \/ \E rtvOk \in BOOLEAN : ImageClear(rtvOk)

SpecImageCmds == InitImageSpec /\ [][NextImageCmds]_vars

\* The size scale computes, for every rule, source and viewport: the
\* arguments are drawn first, then scale is applied to a fresh 1x1 image.
Factors   == {<<0, 1>>, <<1, 2>>, <<1, 1>>, <<3, 2>>}
AxisRules == {Scaling(t, f[1], f[2]) : t \in {"Source", "Viewport"}, f \in Factors}
               \cup {Scaling("Absolute", v, 1) : v \in 0..MaxDim}
Scalings  == {[x |-> rx, y |-> ry] : rx \in AxisRules, ry \in AxisRules}
Sizes     == (0..MaxDim) \X (0..MaxDim)

InitScaleSize ==
    /\ ApiIdle
    /\ image = InitImage
    /\ call = NoCall
    /\ \E scaling \in Scalings, viewport_size \in Sizes, source_size \in Sizes :
          scaleArgs = ScaleArgs(scaling, "R8G8B8A8Unorm", viewport_size, source_size, FALSE)

ApplyScale ==
    /\ call.op = "none"
    /\ ImageScale(scaleArgs.scaling, scaleArgs.format, scaleArgs.viewport_size,
                  scaleArgs.source_size, scaleArgs.mipmap, TRUE)

NextScaleSize == ApplyScale

SpecScaleSize == InitScaleSize /\ [][NextScaleSize]_vars

\* ------------------------------------------------------------ mip levels
\* The loop of calc_miplevel: one level per bit of size.
RECURSIVE CalcMiplevelLoop(_, _)
CalcMiplevelLoop(size, levels) ==
    IF size # 0 THEN CalcMiplevelLoop(size \div 2, levels + 1) ELSE levels

\* Fault variant of calc_miplevel: the loop runs `while size > 1`.
calc_miplevel_stops_at_one(size) ==
    LET m == Max(size[1], size[2])
    IN  IF m = 0 THEN 0 ELSE CalcMiplevelLoop(m \div 2, 0)

\* calc_miplevel (GL 4.6 runtime)
calc_miplevel(size) == CalcMiplevelLoop(Max(size[1], size[2]), 0)

\* `levels as i32` of a u32 below 2^31
U32AsI32(v) == v

\* Gl46LutLoad::load_luts, the texture it creates for one decoded image:
\* the levels of its storage and whether mipmaps are generated.
Gl46LutTexture(size, mipmap) ==
    LET levels == IF mipmap THEN calculate_miplevels(size) ELSE 1
    IN  [size |-> size, levels |-> U32AsI32(levels), generated |-> levels > 1]

\* The images of which the mip levels are computed: small axes, the axes
\* around a power of two, and the largest axis the model can hold.
MipAxes  == (1..MaxDim) \cup {255, 256, 65536, LargeU32}
MipSizes == MipAxes \X MipAxes

InitMip ==
    /\ ApiIdle
    /\ image = InitImage
    /\ call = NoCall
    /\ \E size \in MipSizes, format \in Formats, mipmap \in BOOLEAN :
          scaleArgs = [NoArgs EXCEPT !.source_size = size, !.format = format,
                                     !.mipmap = mipmap]

\* OwnedImage::new(device, size, format, mipmap)
ImageNew ==
    /\ call.op = "none"
    /\ image' = OwnedImage_new(FreshHandle({image.handle}), scaleArgs.source_size,
                               scaleArgs.format, scaleArgs.mipmap)
    /\ call' = [NoCall EXCEPT !.op = "new", !.size = scaleArgs.source_size]
    /\ UNCHANGED << scaleArgs, gl, threads >>
    /\ UNCHANGED apiVars

\* load_luts on one texture of the preset
LutLoad ==
    /\ call.op = "none"
    /\ call' = [op |-> "lut", ok |-> TRUE,
                texture |-> Gl46LutTexture(scaleArgs.source_size, scaleArgs.mipmap)]
    /\ UNCHANGED << image, scaleArgs, gl, threads >>
    /\ UNCHANGED apiVars

\* calc_miplevel(size)
CalcMiplevel ==
    /\ call.op = "none"
    /\ call' = [op |-> "calc_miplevel", ok |-> TRUE,
                levels |-> calc_miplevel(scaleArgs.source_size)]
    /\ UNCHANGED << image, scaleArgs, gl, threads >>
    /\ UNCHANGED apiVars

NextMip ==
    \/ ImageNew
    \/ LutLoad
    \/ CalcMiplevel

SpecMip == InitMip /\ [][NextMip]_vars

\* ------------------------------------------------- GL texture binders
Gl3Bind(binding, texture) ==
    /\ gl' = Gl3BindTexture(gl, binding, texture)
    /\ UNCHANGED << image, call, scaleArgs, threads >>
    /\ UNCHANGED apiVars

Gl46Bind(binding, texture) ==
    /\ gl' = Gl46BindTexture(gl, binding, texture)
    /\ UNCHANGED << image, call, scaleArgs, threads >>
    /\ UNCHANGED apiVars

NextGl ==
    \/ \E binding \in TextureUnits, texture \in GlTextures : Gl3Bind(binding, texture)
    \/ \E binding \in TextureUnits, texture \in GlTextures : Gl46Bind(binding, texture)

SpecGl == InitImageSpec /\ [][NextGl]_vars

\* ------------------------------------------- set_param during a frame
\* Thread 1 enters libra_d3d12_filter_chain_frame: assert_some_ptr!(mut chain)
\* gives it a `&mut` to the chain.
FrameEnter ==
    /\ ~crashed
    /\ threads.frame = "idle"
    /\ threads' = [threads EXCEPT !.frame = "borrowed",
                                  !.seen  = [p \in ParamNames |-> {chain.parameters[p]}],
                                  !.raced = IF threads.set = "borrowed"
                                            THEN {threads.name} ELSE {}]
    /\ UNCHANGED << image, call, scaleArgs, gl >>
    /\ UNCHANGED apiVars

\* The values chain.frame reads: the value in the registry, or, for a
\* parameter written through another `&mut` while frame held its own (a data
\* race), any value the parameter held meanwhile or a torn one.
RacyRead(c, t) ==
    {used \in [ParamNames -> Values \cup {Torn}] :
        \A p \in ParamNames :
            IF p \in t.raced THEN used[p] \in t.seen[p] \cup {Torn}
            ELSE used[p] = c.parameters[p]}

\* Thread 1 runs chain.frame(..) and returns.
FrameRun ==
    /\ ~crashed
    /\ threads.frame = "borrowed"
    /\ threads' = [threads EXCEPT !.frame = "idle"]
    /\ \E used \in RacyRead(chain, threads) :
          FrameReturn(FrameSteps(chain, OneInput, <<2, 2>>, NoOptions, 0, TRUE, used,
                                 Min(chain.passes_enabled, chain.passes),
                                 FrameDirection(NoOptions)),
                      <<2, 2>>, OneInput, NoOptions)
    /\ UNCHANGED << image, call, scaleArgs, gl >>

\* Thread 2 enters libra_d3d12_filter_chain_set_param(chain, name, value):
\* assert_some_ptr!(mut chain) gives it a second `&mut` to the chain.
SetEnter(name, value) ==
    /\ ~crashed
    /\ threads.set = "idle"
    /\ threads' = [threads EXCEPT !.set = "borrowed", !.name = name, !.value = value,
                                  !.raced = IF threads.frame = "borrowed"
                                            THEN @ \cup {name} ELSE @]
    /\ UNCHANGED << image, call, scaleArgs, gl >>
    /\ UNCHANGED apiVars

\* Thread 2 runs chain.set_parameter(name, value) and returns.
SetRun ==
    /\ ~crashed
    /\ threads.set = "borrowed"
    /\ threads' = [threads EXCEPT !.set = "idle",
                                  !.seen[threads.name] =
                                      IF threads.frame = "borrowed"
                                      THEN @ \cup {threads.value} ELSE @]
    /\ chain' = set_parameter(chain, threads.name, threads.value).chain
    /\ lastSet' = [lastSet EXCEPT ![threads.name] = <<threads.value>>]
    /\ ret' = [Ret("set_param", "OK", FALSE) EXCEPT !.name = threads.name,
                                                    !.value = threads.value]
    /\ cmd' = << >>
    /\ UNCHANGED << presetH, chainH, created, drops, resState, crashed >>
    /\ UNCHANGED << image, call, scaleArgs, gl >>

NextRace ==
    \/ FrameEnter
    \/ FrameRun
    \/ \E name \in ParamNames, value \in Values : SetEnter(name, value)
    \/ SetRun

SpecRace == InitLive /\ [][NextRace]_vars

\* ------------------------------------------------------ shader compilers
\* gl_compile_shader(stage, source): the shader object, or a panic when the
\* driver reports COMPILE_STATUS 0.
gl_compile_shader(stage, compile_status) ==
    IF compile_status = 0
    THEN [op |-> "gl_compile_shader", ok |-> FALSE, error |-> "PANIC", stage |-> stage,
          sm |-> "", panics |-> TRUE]
    ELSE [op |-> "gl_compile_shader", ok |-> TRUE, error |-> "", stage |-> stage,
          sm |-> "", panics |-> FALSE]

\* <WriteSpirV as CompileShader<DXIL>>::compile(self, options): the vertex
\* stage is translated first, then the fragment stage; the error of
\* spirv_to_dxil is returned as ShaderCompileError::SpirvToDxilCompileError.
WriteSpirV_compile(options, vertexOk, fragmentOk) ==
    LET sm == IF options = "None" THEN "ShaderModel6_0" ELSE options
    IN  IF ~vertexOk
        THEN [op |-> "dxil_compile", ok |-> FALSE, error |-> "ShaderCompileError",
              stage |-> "Vertex", sm |-> sm, panics |-> FALSE]
        ELSE IF ~fragmentOk
        THEN [op |-> "dxil_compile", ok |-> FALSE, error |-> "ShaderCompileError",
              stage |-> "Fragment", sm |-> sm, panics |-> FALSE]
        ELSE [op |-> "dxil_compile", ok |-> TRUE, error |-> "", stage |-> "",
              sm |-> sm, panics |-> FALSE]

\* A compiler returned or panicked with result r.
Compiled(r) ==
    /\ ~crashed
    /\ call' = r
    /\ crashed' = r.panics
    /\ UNCHANGED << presetH, chainH, created, drops, chain, lastSet, ret, cmd, resState >>
    /\ UNCHANGED << image, scaleArgs, gl, threads >>

GlCompileShader(stage, compile_status) ==
    Compiled(gl_compile_shader(stage, compile_status))

DxilCompile(options, vertexOk, fragmentOk) ==
    Compiled(WriteSpirV_compile(options, vertexOk, fragmentOk))

\* Shaders are compiled and chains are created and freed, with driver
\* failures and with null handles.
NextCompile ==
    \/ \E stage \in {"VERTEX_SHADER", "FRAGMENT_SHADER"}, compile_status \in {0, 1} :
          GlCompileShader(stage, compile_status)
    \/ \E options \in {"None", "ShaderModel6_1"}, vertexOk \in BOOLEAN, fragmentOk \in BOOLEAN :
          DxilCompile(options, vertexOk, fragmentOk)
    \/ \E n \in Presets : libra_preset_create(n)
    \/ \E loadOk \in BOOLEAN :
          libra_d3d12_filter_chain_create("SLOT", "SLOT", loadOk, "crash")
    \/ libra_d3d12_filter_chain_free("SLOT")

SpecCompile == Init /\ [][NextCompile]_vars

\* ------------------------------------------------------------ LUT loader
MaxLuts == 2          \* textures of the largest preset

\* TextureConfig and the image its path decodes to
LutConfig  == [size : {<<1, 1>>, <<2, 1>>, <<4, 4>>}, mipmap : BOOLEAN,
               filter_mode : {"Linear"}, wrap_mode : {"Repeat"}]
LutConfigs == UNION {[1..n -> LutConfig] : n \in 0..MaxLuts}

\* The loop of load_luts from texture `index` (counted from 1) on. The
\* createFail-th create_named_texture fails: `?` returns the error and the
\* map built so far is dropped. Its entries hold a handle, a format and a
\* size and no context, and no delete_texture is issued: the textures stay
\* allocated. Texture i is stored under key i - 1.
RECURSIVE LoadLutLoop(_, _, _, _, _)
LoadLutLoop(index, textures, createFail, luts, allocated) ==
    IF index > Len(textures)
    THEN [ok |-> TRUE, error |-> "", luts |-> luts, allocated |-> allocated]
    ELSE IF index = createFail
    THEN [ok |-> FALSE, error |-> "GlError", luts |-> << >>, allocated |-> allocated]
    ELSE LoadLutLoop(index + 1, textures, createFail,
             luts @@ ((index - 1) :>
                 [image      |-> [handle |-> FreshHandle(allocated), format |-> "RGBA8",
                                  size   |-> textures[index].size],
                  storage    |-> Gl46LutTexture(textures[index].size, textures[index].mipmap),
                  filter     |-> textures[index].filter_mode,
                  mip_filter |-> textures[index].filter_mode,
                  wrap_mode  |-> textures[index].wrap_mode]),
             allocated \cup {FreshHandle(allocated)})

\* Gl46LutLoad::load_luts(context, textures): every image is loaded first
\* (imageFail is the texture whose image fails to load, 0 for none), then
\* the textures are created in order.
load_luts(allocated, textures, imageFail, createFail) ==
    IF imageFail # 0
    THEN [ok |-> FALSE, error |-> "ImageError", luts |-> << >>, allocated |-> allocated]
    ELSE LoadLutLoop(1, textures, createFail, << >>, allocated)

LoadLuts(textures, imageFail, createFail) ==
    /\ call.op = "none"
    /\ LET r == load_luts(gl.allocated, textures, imageFail, createFail)
       IN  /\ call' = [op |-> "load_luts", ok |-> r.ok, error |-> r.error, luts |-> r.luts,
                       textures |-> textures, before |-> gl.allocated]
           /\ gl' = [gl EXCEPT !.allocated = r.allocated]
    /\ UNCHANGED << image, scaleArgs, threads >>
    /\ UNCHANGED apiVars

NextLut ==
    \E textures \in LutConfigs :
       \E imageFail \in 0..Len(textures), createFail \in 0..Len(textures) :
          LoadLuts(textures, imageFail, createFail)

SpecLut == InitImageSpec /\ [][NextLut]_vars

\* OwnedImage::create_shader_resource_view: a descriptor slot is allocated
\* (slotOk) and the view of self.handle is described with self.format.
create_shader_resource_view(self, slotOk) ==
    IF ~slotOk
    THEN [ok |-> FALSE, format |-> self.format, resource |-> Null]
    ELSE [ok |-> TRUE, format |-> self.format, resource |-> self.handle]

\* OwnedImage::create_render_target_view
create_render_target_view(self, slotOk) ==
    IF ~slotOk
    THEN [ok |-> FALSE, format |-> self.format, resource |-> Null]
    ELSE [ok |-> TRUE, format |-> self.format, resource |-> self.handle]

\* image.create_shader_resource_view(heap, filter, wrap_mode)
ImageSrv(slotOk) ==
    /\ call' = [op |-> "srv", ok |-> create_shader_resource_view(image, slotOk).ok,
                before |-> image, view |-> create_shader_resource_view(image, slotOk)]
    /\ UNCHANGED << image, scaleArgs, gl, threads >>
    /\ UNCHANGED apiVars

\* image.create_render_target_view(heap)
ImageRtv(slotOk) ==
    /\ call' = [op |-> "rtv", ok |-> create_render_target_view(image, slotOk).ok,
                before |-> image, view |-> create_render_target_view(image, slotOk)]
    /\ UNCHANGED << image, scaleArgs, gl, threads >>
    /\ UNCHANGED apiVars

\* The image is resized to the source and views of it are created.
NextViews ==
    \/ \E format \in Formats, source_size \in ImageSources, mipmap \in BOOLEAN :
          ImageScale([x |-> Scaling("Source", 1, 1), y |-> Scaling("Source", 1, 1)],
                     format, <<2, 2>>, source_size, mipmap, TRUE)
    \/ \E slotOk \in BOOLEAN : ImageSrv(slotOk)
    \/ \E slotOk \in BOOLEAN : ImageRtv(slotOk)

SpecViews == InitImageSpec /\ [][NextViews]_vars

\* ------------------------------------------------------------ ring buffer
MaxRing == 3          \* SIZE of the largest InlineRingBuffer

\* Fault variant of next: the index wraps only once it is beyond SIZE.
ring_next_wraps_late(ring) ==
    [ring EXCEPT !.index = IF ring.index + 1 > ring.SIZE THEN 0 ELSE ring.index + 1]

\* <InlineRingBuffer as RingBuffer>::next
InlineRingBuffer_next(ring) ==
    [ring EXCEPT !.index = IF ring.index + 1 >= ring.SIZE THEN 0 ELSE ring.index + 1]

\* InlineRingBuffer::<T, SIZE>::new(): SIZE default items, index 0
RingNew(SIZE) ==
    /\ gl.ring.SIZE = 0
    /\ gl' = [gl EXCEPT !.ring = [SIZE |-> SIZE, items |-> [k \in 0..(SIZE - 1) |-> 0],
                                  index |-> 0, last |-> "new", start |-> 0, since |-> 0]]
    /\ UNCHANGED << image, call, scaleArgs, threads >>
    /\ UNCHANGED apiVars

\* ring.next()
RingNext ==
    /\ gl.ring.SIZE >= 1
    /\ gl' = [gl EXCEPT !.ring =
                 [InlineRingBuffer_next(gl.ring) EXCEPT
                     !.last  = "next",
                     !.start = IF gl.ring.since = gl.ring.SIZE THEN gl.ring.index ELSE @,
                     !.since = IF gl.ring.since = gl.ring.SIZE THEN 1 ELSE @ + 1]]
    /\ UNCHANGED << image, call, scaleArgs, threads >>
    /\ UNCHANGED apiVars

\* *ring.current_mut() = value
RingWrite(value) ==
    /\ gl.ring.SIZE >= 1
    /\ gl.ring.index \in DOMAIN gl.ring.items
    /\ gl' = [gl EXCEPT !.ring.items[gl.ring.index] = value,
                        !.ring.last = "write",
                        !.ring.start = gl.ring.index,
                        !.ring.since = 0]
    /\ UNCHANGED << image, call, scaleArgs, threads >>
    /\ UNCHANGED apiVars

NextRing ==
    \/ \E SIZE \in 1..MaxRing : RingNew(SIZE)
    \/ RingNext
    \/ \E value \in Values : RingWrite(value)

SpecRing == InitImageSpec /\ [][NextRing]_vars

\* ------------------------------------------------------------- properties
ChainIds == 1..MaxChains

\* C1: after libra_d3d12_filter_chain_free is called with a non-null pointer
\* to a live chain handle, the handle is null on return and the chain object
\* it referred to has been released exactly once; no chain object is ever
\* released twice.
C1_FreeNullsHandleReleasesOnce ==
    /\ \A id \in ChainIds : drops[id] <= 1
    /\ (ret.fn = "free" /\ ~ret.nullArg) =>
          /\ ret.code = "OK"
          /\ chainH = Null
          /\ chain = NoChain
          /\ drops[ret.value] = 1

\* A chain was created, handed out and freed through a non-null pointer.
C1_Witness ==
    /\ ret.fn = "free"
    /\ ret.code = "OK"
    /\ ret.value \in ChainIds
    /\ drops[ret.value] = 1

\* C2 as stated: every call that is given a null pointer, or a pointer to a
\* null handle, where a non-null one is required returns INVALID_PARAMETER
\* and has no other effect. A second free of the same handle, and a create
\* whose preset handle is null, end in unwrap() on None instead.
C2_NullReturnsInvalidParameter ==
    [][ret'.nullArg =>
          /\ ret'.code = "INVALID_PARAMETER"
          /\ ret'.out = << >>
          /\ cmd' = << >>
          /\ UNCHANGED << presetH, chainH, created, drops, chain, resState, crashed >>]_vars

C4_UnknownParameterNoEffect ==
    [][(/\ ret'.fn \in {"set_param", "get_param"}
        /\ ~ret'.nullArg
        /\ ret'.name \notin (DOMAIN chain.parameters \cup {BadUtf8})) =>
          /\ ret'.code = "UNKNOWN_PARAMETER"
          /\ ret'.out = << >>
          /\ chain'.parameters = chain.parameters
          /\ chain' = chain]_vars

\* set_param of an unknown name was refused on a chain whose parameters had
\* been given values.
C4_Witness ==
    /\ ret.fn = "set_param"
    /\ ret.name = "gamma"
    /\ ret.code = "UNKNOWN_PARAMETER"
    /\ chain.parameters["alpha"] = MaxValue

\* C5: after a successful set_parameter(p, v), every frame until p is set
\* again runs with p = v: the snapshot of the frame and the uniforms of
\* every pass it draws hold v, the first frame after creation included.
C5_FrameUsesLastSetValue ==
    (ret.fn = "frame" /\ ret.code = "OK") =>
        \A p \in ParamNames :
            lastSet[p] # << >> =>
                /\ ret.used[p] = lastSet[p][1]
                /\ \A j \in 1..Len(cmd) :
                      cmd[j].op = "draw" => cmd[j].params[p] = lastSet[p][1]

\* A frame drew a pass after alpha had been set to a value other than the
\* preset's.
C5_Witness ==
    /\ ret.fn = "frame"
    /\ ret.code = "OK"
    /\ ret.pActive > 0
    /\ lastSet["alpha"] = <<MaxValue>>
    /\ \E j \in 1..Len(cmd) : cmd[j].op = "draw"

\* C6: set_active_pass_count(v) returns no error for every u32 v and stores
\* min(v, P), P the number of passes of the preset; get_active_pass_count
\* returns the stored count, which never exceeds P.
C6_PassCountClamped ==
    /\ chain.passes_enabled \in 0..chain.passes
    /\ (ret.fn = "set_active_pass_count" /\ ~ret.nullArg) =>
          /\ ret.code = "OK"
          /\ chain.passes_enabled = Min(ret.value, chain.passes)
    /\ (ret.fn = "get_active_pass_count" /\ ~ret.nullArg) =>
          /\ ret.code = "OK"
          /\ ret.out = << chain.passes_enabled >>

\* A count above the number of passes was set.
C6_Witness ==
    /\ ret.fn = "set_active_pass_count"
    /\ ret.code = "OK"
    /\ ret.value > chain.passes
    /\ chain.passes_enabled = chain.passes

\* C7: with an active pass count of 0, a frame that returns no error
\* records exactly one blit of the input to the output at the viewport's
\* size; it draws no pass, creates no image, and leaves the history ring
\* and the feedback images as they were.
C7_ZeroPassesBlitOnly ==
    [][(/\ ret'.fn = "frame"
        /\ ~ret'.nullArg
        /\ ret'.code = "OK"
        /\ chain.passes_enabled = 0) =>
          /\ ret'.pActive = 0
          /\ cmd' = << Blit(OutputRes, InputRes, ret'.viewport) >>
          /\ ret'.allocs = 0
          /\ chain' = chain]_vars

\* A frame with no active pass on a chain whose outputs earlier frames had
\* rendered.
C7_Witness ==
    /\ ret.fn = "frame"
    /\ ret.code = "OK"
    /\ ret.pActive = 0
    /\ ret.viewport = <<4, 2>>
    /\ Len(cmd) = 1
    /\ chain.outContent[1] # Undef

\* C8: a frame records no barrier on the caller's output image, which stays
\* in RENDER_TARGET, and the caller's input image is in
\* PIXEL_SHADER_RESOURCE when the frame returns.
C8_CallerImagesKeepState ==
    /\ resState = [input |-> PSR, output |-> RT]
    /\ \A j \in 1..Len(cmd) :
          cmd[j].op = "transition" => cmd[j].res # OutputRes

\* A frame copied the caller's input into the history ring.
C8_Witness ==
    /\ ret.fn = "frame"
    /\ ret.code = "OK"
    /\ \E j \in 1..Len(cmd) : cmd[j].op = "copy" /\ cmd[j].src = InputRes
    /\ \E j \in 1..Len(cmd) : cmd[j].op = "draw" /\ cmd[j].res = OutputRes

\* C9 as stated: OwnedImage::scale replaces the GPU resource exactly when
\* the computed size, the requested format, or the mipmap state differs
\* from the current image's, and keeps the resource handle otherwise. A 1x1
\* image created with mipmap = true has one mip level, and scale replaces
\* it on every call with the same arguments.
C9_ReallocIffChanged ==
    (call.op = "scale" /\ call.ok) =>
        ((image.handle # call.before.handle) <=>
            \/ call.req.size # call.before.size
            \/ call.req.format # call.before.format
            \/ call.req.mipmap # call.before.uav)

\* out is floor(axis * num / den) clamped to at least 1, stated without
\* the division.
AxisIsScaled(rule, source_axis, viewport_axis, out) ==
    LET scaled == (IF rule.type = "Source" THEN source_axis ELSE viewport_axis) * rule.num
    IN  /\ out >= 1
        /\ IF rule.type = "Absolute"
           THEN out = (IF rule.num = 0 THEN 1 ELSE rule.num)
           ELSE IF scaled < rule.den
           THEN out = 1
           ELSE out * rule.den <= scaled /\ scaled < (out + 1) * rule.den

\* C10: the size scale returns is computed per axis: Source(f) gives
\* floor(source_axis * f), Viewport(f) gives floor(viewport_axis * f),
\* Absolute(v) gives v, and each axis is then raised to at least 1, a
\* factor of 0 and Absolute(0) included; the image has that size.
C10_ScaledSizePerAxis ==
    call.op = "scale" =>
        /\ call.ok
        /\ image.size = call.size
        /\ AxisIsScaled(scaleArgs.scaling.x, scaleArgs.source_size[1],
                        scaleArgs.viewport_size[1], call.size[1])
        /\ AxisIsScaled(scaleArgs.scaling.y, scaleArgs.source_size[2],
                        scaleArgs.viewport_size[2], call.size[2])

\* scale was applied with Absolute(0) on x and Source x 0 on y to a source
\* and a viewport of different sizes.
C10_Witness ==
    /\ call.op = "scale"
    /\ scaleArgs.scaling.x = Scaling("Absolute", 0, 1)
    /\ scaleArgs.scaling.y = Scaling("Source", 0, 1)
    /\ scaleArgs.source_size = <<MaxDim, MaxDim>>
    /\ scaleArgs.viewport_size = <<1, 0>>
    /\ call.size = <<1, 1>>

\* The size pass i samples as Source in a frame with the given input size
\* and viewport: the input's for pass 1, else what the scale rule of pass
\* i - 1 yields from that pass's source size.
RECURSIVE PassSourceSize(_, _, _)
PassSourceSize(i, input_size, viewport) ==
    IF i = 1 THEN input_size
    ELSE scale_viewport(PassSourceSize(i - 1, input_size, viewport), PassScaling(i - 1),
                        viewport)

\* The image pass i rendered to in the frame that just returned: after the
\* feedback swap it is the "previous" image of a feedback pass.
PassImage(i) ==
    IF i \in DOMAIN chain.feedback THEN chain.feedback[i] ELSE chain.output[i]

IsBitCount(m, levels) ==
    /\ levels >= 1
    /\ levels <= 32
    /\ m \div (2 ^ (levels - 1)) = 1

\* C12: an image created by OwnedImage::new or by the GL 4.6 LUT loader has
\* floor(log2(max(w, h))) + 1 mip levels when mipmapping is requested and 1
\* otherwise; calc_miplevel(size) is floor(log2(max(w, h))) + 1 for every
\* size with max(w, h) >= 1; the 16-bit field holds the value unchanged.
C12_MipLevels ==
    LET m == Max(scaleArgs.source_size[1], scaleArgs.source_size[2])
    IN  /\ call.op = "new" =>
              /\ image.size = scaleArgs.source_size
              /\ IF scaleArgs.mipmap THEN IsBitCount(m, image.max_mipmap)
                 ELSE image.max_mipmap = 1
        /\ call.op = "lut" =>
              /\ IF scaleArgs.mipmap THEN IsBitCount(m, call.texture.levels)
                 ELSE call.texture.levels = 1
        /\ call.op = "calc_miplevel" => IsBitCount(m, call.levels)

\* calc_miplevel was applied to a size whose larger axis is a power of two.
C12_Witness ==
    /\ call.op = "calc_miplevel"
    /\ scaleArgs.source_size = <<MaxDim, 256>>
    /\ call.levels = 9

C15_SamplersInterned ==
    [][/\ \A k \in DOMAIN gl.samplers :
             k \in DOMAIN gl'.samplers /\ gl'.samplers[k] = gl.samplers[k]
       /\ \A k1, k2 \in DOMAIN gl'.samplers :
             k1 # k2 => gl'.samplers[k1] # gl'.samplers[k2]
       /\ DOMAIN gl'.samplers \subseteq SamplerKeys
       /\ Cardinality(DOMAIN gl'.samplers) <= 4 * 2 * 2 * 3
       /\ gl'.last.fn # "none" =>
             LET t == gl'.last.texture
                 k == <<t.wrap_mode, t.filter, t.filter, t.mip_filter>>
             IN  /\ k \in DOMAIN gl'.samplers
                 /\ gl'.sampler[gl'.last.binding] = gl'.samplers[k]
                 /\ gl'.texture[gl'.last.binding] = t.handle]_vars

\* Two textures of one sampling state are bound to two units with one
\* sampler, after textures of two other sampling states were bound.
C15_Witness ==
    /\ Cardinality(DOMAIN gl.samplers) = 3
    /\ gl.last.fn = "gl3"
    /\ gl.last.texture.handle = 2
    /\ gl.texture[0] = 1
    /\ gl.texture[1] = 2
    /\ gl.sampler[0] = gl.sampler[1]
    /\ gl.sampler[0] # 0

\* C16: a frame call that returns an error leaves the logical state of the
\* chain as it was: the parameter values, the enabled pass count, the order
\* of the history ring (every slot holds what it held, or zeroes when the
\* frame cleared the history) and the roles of the feedback pairs (the
\* previous image holds what it held or zeroes, the current image what it
\* held or what the pass drew before the failure); and a following frame
\* call on the chain succeeds when no allocation fails.
C16_FailedFrameKeepsLogicalState ==
    [][(ret'.fn = "frame" /\ ret'.code # "OK") =>
          /\ chain'.parameters = chain.parameters
          /\ chain'.passes_enabled = chain.passes_enabled
          /\ chain'.passes = chain.passes
          /\ lastSet' = lastSet
          /\ Len(chain'.history) = Len(chain.history)
          /\ \A k \in 1..Len(chain.history) :
                chain'.histContent[k] \in {chain.histContent[k], Zero}
          /\ DOMAIN chain'.feedback = DOMAIN chain.feedback
          /\ \A i \in DOMAIN chain.feedback :
                /\ chain'.fbContent[i] \in {chain.fbContent[i], Zero}
                /\ chain'.outContent[i] \in {chain.outContent[i], PassOut(i, ret'.tag)}
                /\ chain'.feedback[i].handle # chain'.output[i].handle
          /\ FilterChain_frame(chain', OneInput, <<2, 2>>, NoOptions, 0, TRUE).code = "OK"]_vars

\* A frame failed on a chain whose feedback pair holds two different
\* frames: the previous image still holds the older one.
C16_Witness ==
    /\ ret.fn = "frame"
    /\ ret.code = "ALLOCATION_FAILED"
    /\ 1 \in DOMAIN chain.feedback
    /\ chain.fbContent[1] = PassOut(1, "A")
    /\ chain.outContent[1] = PassOut(1, "B")

\* C17: a frame call with a viewport of width 0 and height 0 returns
\* InvalidParameter, records nothing into the command list and leaves the
\* chain untouched: no image is re-allocated, the history is not rotated,
\* the feedback pairs are not swapped, and the caller's images keep their
\* resource states.
C17_EmptyViewportRejected ==
    [][(ret'.fn = "frame" /\ ~ret'.nullArg /\ ret'.viewport = <<0, 0>>) =>
          /\ ret'.code = "INVALID_PARAMETER"
          /\ cmd' = << >>
          /\ chain' = chain
          /\ ret'.allocs = 0
          /\ resState' = resState]_vars

\* A frame with a 0x0 viewport was rejected on a chain that has rendered
\* before, with a history clear requested and two passes active.
C17_Witness ==
    /\ ret.fn = "frame"
    /\ ret.viewport = <<0, 0>>
    /\ ret.code = "INVALID_PARAMETER"
    /\ ret.clear
    /\ ret.pActive = 2
    /\ chain.outContent[1] = PassOut(1, "B")

\* C18: the FrameDirection uniform a frame uses is -1 or +1: +1 when the
\* options pointer is null, when the options are default-constructed
\* (frame_direction 0) or when frame_direction is 0, and otherwise the sign
\* of the frame_direction option.
C18_FrameDirectionIsSign ==
    (ret.fn = "frame" /\ ~ret.nullArg) =>
        /\ ret.direction \in {-1, 1}
        /\ ret.direction = IF ret.noOptions \/ ret.frame_direction = 0 THEN 1
                           ELSE IF ret.frame_direction < 0 THEN -1 ELSE 1

\* A frame was given frame_direction -2 and used -1.
C18_Witness ==
    /\ ret.fn = "frame"
    /\ ret.code = "OK"
    /\ ~ret.noOptions
    /\ ret.frame_direction = -2
    /\ ret.direction = -1

\* C19: set_parameter may run concurrently with a frame call on the same
\* chain: every parameter value a frame uses is a value the parameter held
\* between the entry of the frame and its reading, never a torn one; with
\* no set during the frame that is the value of the last set completed
\* before the frame, so a set that lands during a frame is observed by the
\* next frame at the latest.
C19_ConcurrentSetIsSafe ==
    (ret.fn = "frame" /\ threads.frame = "idle") =>
        \A p \in ParamNames : ret.used[p] \in threads.seen[p]

\* C20 as stated: every fallible operation reports failure as a returned
\* error and never ends the process: a shader that fails to compile yields a
\* ShaderCompile error from gl_compile_shader and from the DXIL backend, and
\* create or free on a pointer to a null handle returns an error.
C20_FailuresAreReturned ==
    /\ ~crashed
    /\ ret.code # "PANIC"
    /\ (call.op \in {"gl_compile_shader", "dxil_compile"} /\ ~call.ok) =>
           call.error = "ShaderCompileError"

\* C21 as stated: when load_luts returns an error, no texture the call
\* created remains allocated; when it succeeds, the map has one entry per
\* configured texture, keyed 0..n-1, each with a texture of its own. A
\* failure of the k-th create_named_texture leaves the k-1 textures created
\* before it allocated.
C21_FailedLoadLeavesNoTexture ==
    call.op = "load_luts" =>
        IF call.ok
        THEN /\ DOMAIN call.luts = 0..(Len(call.textures) - 1)
             /\ gl.allocated = call.before \cup {call.luts[i].image.handle : i \in DOMAIN call.luts}
             /\ Cardinality(gl.allocated) = Cardinality(call.before) + Len(call.textures)
        ELSE gl.allocated = call.before

\* C22 as stated: between OwnedImage operations the image, and the input
\* of copy_from, are in PIXEL_SHADER_RESOURCE, also after a call that
\* returned an error; within a call the transition into COPY_DEST or
\* RENDER_TARGET precedes the copy or clear command and the transition back
\* to PIXEL_SHADER_RESOURCE follows it. A clear whose render target view
\* cannot be created returns after the first transition.
C22_ImagesRestInShaderResource ==
    /\ image.state = PSR
    /\ resState.input = PSR
    /\ \A j \in 1..Len(cmd) :
          cmd[j].op \in {"copy", "clear"} =>
              /\ \E i \in 1..(j - 1) :
                    /\ cmd[i] = d3d12_resource_transition(cmd[j].res, PSR,
                                    IF cmd[j].op = "copy" THEN CopyDest ELSE RT)
              /\ \E k \in (j + 1)..Len(cmd) :
                    /\ cmd[k] = d3d12_resource_transition(cmd[j].res,
                                    IF cmd[j].op = "copy" THEN CopyDest ELSE RT, PSR)

\* C23: when scale needs a new image and the allocation fails, scale
\* returns the error and the OwnedImage is as before the call: the same
\* resource handle, size, format and mip level count, in the state it had.
C23_FailedScaleKeepsImage ==
    (call.op = "scale" /\ ~call.ok) =>
        /\ ScaleNeedsNew(call.before, call.req.size, call.req.format, call.req.mipmap)
        /\ image.handle = call.before.handle
        /\ image.handle # Null
        /\ image.size = call.before.size
        /\ image.format = call.before.format
        /\ image.max_mipmap = call.before.max_mipmap
        /\ image = call.before

\* A scale to another size failed on a mipmapped 2x2 image, which is kept.
C23_Witness ==
    /\ call.op = "scale"
    /\ ~call.ok
    /\ call.req.size # call.before.size
    /\ image.size = <<2, 2>>
    /\ image.max_mipmap = 2
    /\ image.handle = call.before.handle

\* C24: InlineRingBuffer is a fixed-depth cyclic buffer. For SIZE >= 1 every
\* next() advances the index by one modulo SIZE and leaves it within
\* 0..SIZE-1, SIZE consecutive next() calls bring current() back to the slot
\* they started from, and next() changes neither the items nor their number.
C24_RingIsCyclic ==
    [][(gl.ring.SIZE >= 1 /\ gl'.ring.last = "next") =>
          /\ gl'.ring.index = (gl.ring.index + 1) % gl.ring.SIZE
          /\ gl'.ring.index \in 0..(gl.ring.SIZE - 1)
          /\ gl'.ring.index = (gl'.ring.start + gl'.ring.since) % gl.ring.SIZE
          /\ (gl'.ring.since = gl.ring.SIZE => gl'.ring.index = gl'.ring.start)
          /\ gl'.ring.items = gl.ring.items
          /\ DOMAIN gl'.ring.items = 0..(gl.ring.SIZE - 1)
          /\ gl'.ring.SIZE = gl.ring.SIZE]_vars

\* A ring of three slots was written at slot 1, and three next() calls
\* later current() is slot 1 again with the items as written.
C24_Witness ==
    /\ gl.ring.SIZE = 3
    /\ gl.ring.last = "next"
    /\ gl.ring.since = 3
    /\ gl.ring.start = 1
    /\ gl.ring.index = 1
    /\ gl.ring.items[1] = 1

\* C25: the format of a shader resource view and of a render target view
\* created from an owned image equals the format its GPU resource was
\* created with, also when the device's closest supported format differs
\* from the nominal one.
C25_ViewFormatIsResourceFormat ==
    (call.op \in {"srv", "rtv"} /\ call.ok) =>
        /\ call.view.resource = image.handle
        /\ call.view.format = image.resFormat

\* C26: OwnedImage::scale is idempotent. A scale call that asks for the
\* size, format and mipmap flag of the successful call directly before it
\* creates no new image and keeps the resource handle, also for a 1x1
\* image with mipmap set.
C26_ScaleIsIdempotent ==
    [][(call.op = "scale" /\ call.ok /\ call'.op = "scale" /\ call'.req = call.req) =>
          /\ ~ScaleNeedsNew(image, call'.req.size, call'.req.format, call'.req.mipmap)
          /\ image'.handle = image.handle]_vars

\* C27: the GL3 and the GL4.6 texture binder are equivalent on the binding
\* table. After bind_texture of either, unit binding.binding has the
\* texture's image handle as its 2D texture and the sampler of (wrap_mode,
\* filter, mip_filter) as its sampler, no other unit's texture or sampler
\* changed, and the other implementation would have left the same table
\* and the same sampler set.
C27_BindersEquivalent ==
    [][gl'.last.fn \in {"gl3", "gl46"} =>
          LET b   == gl'.last.binding
              t   == gl'.last.texture
              g3  == Gl3BindTexture(gl, b, t)
              g46 == Gl46BindTexture(gl, b, t)
          IN  /\ gl'.texture[b] = t.handle
              /\ gl'.sampler[b] =
                    SamplerSet_get(gl.samplers, t.wrap_mode, t.filter, t.mip_filter).handle
              /\ \A u \in TextureUnits \ {b} :
                    gl'.texture[u] = gl.texture[u] /\ gl'.sampler[u] = gl.sampler[u]
              /\ g3.texture = g46.texture
              /\ g3.sampler = g46.sampler
              /\ g3.samplers = g46.samplers
              /\ gl'.texture = g3.texture
              /\ gl'.sampler = g3.sampler
              /\ gl'.samplers = g3.samplers]_vars

\* The GL4.6 binder bound texture 3 to unit 1 while unit 0, the active unit
\* since a GL3 bind, keeps texture 1 and its own sampler.
C27_Witness ==
    /\ gl.last.fn = "gl46"
    /\ gl.last.binding = 1
    /\ gl.last.texture.handle = 3
    /\ gl.active = 0
    /\ gl.texture[0] = 1
    /\ gl.texture[1] = 3
    /\ gl.sampler[0] # 0
    /\ gl.sampler[1] # 0
    /\ gl.sampler[0] # gl.sampler[1]

====
